---------------------------- MODULE Spec2Model ----------------------------
(***************************************************************************)
(* Model of StockMarket/script.js: the click handler of #predict-btn.      *)
(*                                                                         *)
(* The handler is an async function.  It runs synchronously up to the      *)
(* fetch call (line 23), is suspended until the fetch promise settles,     *)
(* is suspended a second time on response.json() (line 29), and then runs  *)
(* synchronously to its end.  Each of these three synchronous stretches is *)
(* one action; the browser runs them one at a time, in any interleaving    *)
(* with the stretches of other clicks.                                     *)
(*                                                                         *)
(* Numbers.  The prices of a response are JavaScript doubles.  They are    *)
(* modelled as exact rationals [num, den]; the model's prices are          *)
(* multiples of 1/256, which doubles represent exactly and subtract        *)
(* exactly, and the price pairs are chosen so that no percentage falls on  *)
(* a rounding tie of toFixed, where the double result could differ from    *)
(* the exact one.                                                          *)
(*                                                                         *)
(* Strings.  The ticker typed by the user is a sequence of characters, so  *)
(* that trim() is computed.  The string toFixed returns is kept as the     *)
(* record [neg, hundredths] of its sign and digits: DecimalText renders    *)
(* it and ToNumber is JavaScript's coercion of it back to a number.        *)
(***************************************************************************)
EXTENDS Integers, Sequences, FiniteSets, TLC

\* Bounds of the model.
MaxClicks == 2
MaxLen == 2

\* toFixed(2) (lines 42, 43).
FractionDigits == 2

---------------------------------------------------------------------------
\* Characters the user can type, and the raw values of #ticker-input.
Chars == {" ", "A"}

RECURSIVE SeqsUpTo(_)
SeqsUpTo(n) ==
    IF n = 0 THEN {<<>>}
    ELSE LET shorter == SeqsUpTo(n - 1)
         IN  shorter \cup {Append(s, c) : s \in {t \in shorter : Len(t) = n - 1}, c \in Chars}

RawInputs == SeqsUpTo(MaxLen)

IsWhitespace(c) == c \in {" ", "\t", "\n", "\r"}

\* String.prototype.trim (line 4): drop leading, then trailing, whitespace.
RECURSIVE TrimStart(_)
TrimStart(s) ==
    IF s /= <<>> /\ IsWhitespace(Head(s)) THEN TrimStart(Tail(s)) ELSE s

RECURSIVE TrimEnd(_)
TrimEnd(s) ==
    IF s /= <<>> /\ IsWhitespace(s[Len(s)]) THEN TrimEnd(SubSeq(s, 1, Len(s) - 1)) ELSE s

\* Mutant: the field's value is used untrimmed.
NoTrim(s) == s

Trim(s) == TrimEnd(TrimStart(s))

---------------------------------------------------------------------------
Abs(i) == IF i < 0 THEN -i ELSE i

RECURSIVE GCD(_, _)
GCD(a, b) == IF b = 0 THEN a ELSE GCD(b, a % b)

\* Numbers: exact rationals num/den in lowest terms, den > 0.
Rat(n, d) == LET g == GCD(Abs(n), d) IN [num |-> n \div g, den |-> d \div g]

\* a - b (line 42)
NumSub(a, b) == Rat(a.num * b.den - b.num * a.den, a.den * b.den)

\* (a / b) * 100 for b > 0 (line 43)
NumPercent(a, b) == Rat(a.num * b.den * 100, a.den * b.num)

\* Number.prototype.toFixed(2): "if x < 0 then the sign is - and x = -x; let n
\* be the integer for which n / 10^f - x is as close to zero as possible, the
\* larger n if there are two".  The result is the string's sign and digits.
ToFixed(x) ==
    LET scale == 10^FractionDigits
        n == (2 * Abs(x.num) * scale + x.den) \div (2 * x.den)
    IN  [neg |-> x.num < 0, hundredths |-> n]

\* ToNumber of a string produced by toFixed: "-0.00" is -0, which is 0.
ToNumber(s) == Rat(IF s.neg THEN -s.hundredths ELSE s.hundredths, 10^FractionDigits)

\* x >= 0 on numbers (lines 50, 51)
NonNegative(x) == x.num >= 0

Pad2(k) == IF k < 10 THEN "0" \o ToString(k) ELSE ToString(k)

\* The text of a toFixed(2) result: sign, integer digits, ".", two digits.
DecimalText(s) ==
    (IF s.neg THEN "-" ELSE "") \o ToString(s.hundredths \div 100) \o "."
        \o Pad2(s.hundredths % 100)

RECURSIVE DigitCount(_)
DigitCount(k) == IF k < 10 THEN 1 ELSE 1 + DigitCount(k \div 10)

\* The digits of the fraction k / 10^w, k > 0, without its trailing zeros.
RECURSIVE FractionText(_, _)
FractionText(k, w) ==
    IF k % 10 = 0 THEN FractionText(k \div 10, w - 1)
    ELSE IF DigitCount(k) < w THEN "0" \o FractionText(k, w - 1)
    ELSE ToString(k)

\* Number::toString, as the template literals of lines 39 and 40 apply it, for a
\* number whose decimal expansion ends within eight places (every multiple of
\* 1/256): the exact expansion is then the shortest text that reads back as the
\* same double, which is what toString prints.
NumberToString(x) ==
    LET whole == Abs(x.num) \div x.den
        frac  == (Abs(x.num) % x.den) * (10^8 \div x.den)
    IN  (IF x.num < 0 THEN "-" ELSE "") \o ToString(whole)
            \o (IF frac = 0 THEN "" ELSE "." \o FractionText(frac, 8))

---------------------------------------------------------------------------
\* JavaScript values that may be undefined: [defined, val].
Undefined == [defined |-> FALSE, val |-> ""]
Defined(v) == [defined |-> TRUE, val |-> v]

\* The null placeholders of the Predicted dataset (line 78): not a number.
Null == [num |-> 0, den |-> 0]

\* stockChart = null (line 1); charts are numbered from 1.
NoChart == 0

\* The decoded body of a response (spec section 3 names its members).  A body
\* that is not an object (JSON null) has isObject = FALSE.
HistoryDates == <<"2024-01-02", "2024-01-03">>

FullResponse(last, pred) ==
    [isObject        |-> TRUE,
     error           |-> Undefined,
     ticker          |-> "AAPL",
     last_close      |-> last,
     predicted_price |-> pred,
     history         |-> Defined([dates  |-> HistoryDates,
                                  closes |-> Defined(<<Rat(99, 1), last>>)]),
     predicted       |-> Defined(<<[date |-> "2024-01-04", price |-> pred]>>)]

PricePairs ==
    { <<Rat(100, 1), Rat(105, 1)>>,
      <<Rat(100, 1), Rat(95, 1)>>,
      <<Rat(100, 1), Rat(100, 1)>>,
      <<Rat(100, 1), Rat(25599, 256)>>,
      <<Rat(80, 1), Rat(81, 1)>> }

WellFormed == {FullResponse(p[1], p[2]) : p \in PricePairs}

Sample == FullResponse(Rat(100, 1), Rat(105, 1))

Malformed ==
    { [Sample EXCEPT !.history = Undefined],
      [Sample EXCEPT !.predicted = Undefined],
      [Sample EXCEPT !.history = Defined([dates |-> HistoryDates, closes |-> Undefined])],
      [Sample EXCEPT !.history = Defined([dates |-> <<>>, closes |-> Defined(<<>>)])] }

ErrorResponses ==
    { [Sample EXCEPT !.error = Defined("No data found for ticker")],
      [Sample EXCEPT !.error = Defined("")] }

NullResponse == [Sample EXCEPT !.isObject = FALSE]

Responses == WellFormed \cup Malformed \cup ErrorResponses \cup {NullResponse}

\* if (data.error): undefined and "" are falsy.
Truthy(v) == v.defined /\ v.val /= ""

---------------------------------------------------------------------------
VARIABLES
    tickerInput,        \* #ticker-input .value
    nClicks,            \* clicks handled so far
    errorText,          \* #error-message .innerText
    errorDisplay,       \* #error-message .style.display
    btnTextDisplay,     \* .btn-text .style.display
    btnLoadingDisplay,  \* .btn-loading .style.display
    resultsDisplay,     \* #results-section .style.display
    infoDisplay,        \* #info-section .style.display
    fields,             \* the six result text fields and the badge class
    stockChart,         \* the module variable of line 1
    charts,             \* every Chart constructed: its config, whether destroyed
    runs,               \* the handler runs that reached the fetch, in click order
    fetchLog,           \* the fetch calls issued, in order: the run of each
    settled,            \* the runs that ended, in the order they ended
    lastResponse        \* the body most recently decoded, and the run it went to

vars == <<tickerInput, nClicks, errorText, errorDisplay, btnTextDisplay,
          btnLoadingDisplay, resultsDisplay, infoDisplay, fields, stockChart,
          charts, runs, fetchLog, settled, lastResponse>>

errorVars   == <<errorText, errorDisplay>>
buttonVars  == <<btnTextDisplay, btnLoadingDisplay>>
resultVars  == <<fields, resultsDisplay, infoDisplay, stockChart, charts>>

\* The page as loaded: no inline style set, the result fields empty, no chart.
Init ==
    /\ tickerInput = <<>>
    /\ nClicks = 0
    /\ errorText = ""
    /\ errorDisplay = ""
    /\ btnTextDisplay = ""
    /\ btnLoadingDisplay = ""
    /\ resultsDisplay = ""
    /\ infoDisplay = ""
    /\ fields = [tickerDisplay |-> "", currentPrice |-> "", predictedPrice |-> "",
                 priceChange |-> "", percentChange |-> "",
                 badgeText |-> "", badgeClass |-> ""]
    /\ stockChart = NoChart
    /\ charts = <<>>
    /\ runs = <<>>
    /\ fetchLog = <<>>
    /\ settled = <<>>
    /\ lastResponse = [run |-> 0, data |-> NullResponse]

---------------------------------------------------------------------------
\* Lines 37-51: the prediction card.  change is the string toFixed returns;
\* line 43 divides that string, line 50 and 51 compare it with 0.
PredictionCard(d) ==
    LET change  == ToFixed(NumSub(d.predicted_price, d.last_close))
        percent == ToFixed(NumPercent(ToNumber(change), d.last_close))
        up      == NonNegative(ToNumber(change))
    IN  [tickerDisplay  |-> d.ticker,
         currentPrice   |-> "$" \o NumberToString(d.last_close),
         predictedPrice |-> "$" \o NumberToString(d.predicted_price),
         priceChange    |-> "$" \o DecimalText(change),
         percentChange  |-> DecimalText(percent) \o "%",
         badgeText      |-> IF up THEN "Bullish ↑" ELSE "Bearish ↓",
         badgeClass     |-> "badge " \o (IF up THEN "positive" ELSE "negative")]

\* The card of each body the model draws, computed once.
CardOf == [d \in Responses |-> PredictionCard(d)]

RECURSIVE Nulls(_)
Nulls(n) == IF n = 0 THEN <<>> ELSE <<Null>> \o Nulls(n - 1)

\* p => p.date, p => p.price (lines 58, 59, 78)
MapDate(ps) == [i \in 1..Len(ps) |-> ps[i].date]
MapPrice(ps) == [i \in 1..Len(ps) |-> ps[i].price]

\* Lines 58, 59, 67-84: the labels and the two datasets handed to Chart.
ChartConfig(d) ==
    LET closes == d.history.val.closes.val
        preds  == d.predicted.val
    IN  [labels     |-> d.history.val.dates \o MapDate(preds),
         historical |-> closes,
         predicted  |-> Nulls(Len(closes) - 1) \o <<d.last_close>> \o MapPrice(preds)]

\* Where the try block is left for the decoded body d: the line whose
\* evaluation throws or returns, or 96 when line 95 completes.  chartFails
\* is the environment's part: getContext or the Chart constructor throwing.
\*   31  data.error of a body that is not an object: TypeError
\*   34  return after showing data.error
\*   58  data.history or data.predicted undefined: TypeError
\*   59  data.history.closes undefined: not iterable
\*   65  new Array(-1) for empty closes (line 78): RangeError, or chartFails
ExitLine(d, chartFails) ==
    IF ~d.isObject THEN 31
    ELSE IF Truthy(d.error) THEN 34
    ELSE IF ~d.history.defined \/ ~d.predicted.defined THEN 58
    ELSE IF ~d.history.val.closes.defined THEN 59
    ELSE IF Len(d.history.val.closes.val) = 0 \/ chartFails THEN 65
    ELSE 96

\* The statement of this line ran to its end before the try block was left.
Executed(line, exit) == line < exit

Thrown(exit) == exit \in {31, 58, 59, 65}

\* How a run ended.
Outcome(exit) ==
    IF exit = 34 THEN "serverError"
    ELSE IF Thrown(exit) THEN "exception"
    ELSE "rendered"

\* Lines 10, 11
ShowValidationError ==
    /\ errorText' = "Please enter a stock ticker!"
    /\ errorDisplay' = "block"

\* Line 14
HideError ==
    /\ errorDisplay' = "none"
    /\ errorText' = errorText

\* Lines 19, 20
ShowLoading ==
    /\ btnTextDisplay' = "none"
    /\ btnLoadingDisplay' = "inline-flex"

\* Mutant: the server's message is replaced by the generic one.
ShowServerError_Generic(d) ==
    /\ errorText' = "Error connecting to server."
    /\ errorDisplay' = "block"

\* Lines 32, 33
ShowServerError(d) ==
    /\ errorText' = d.error.val
    /\ errorDisplay' = "block"

\* Mutant: an empty catch block.
Catch_Swallow == UNCHANGED errorVars

\* Lines 97-99
Catch ==
    /\ errorText' = "Error connecting to server."
    /\ errorDisplay' = "block"

\* Mutant: no finally block.
Finally_Missing == UNCHANGED buttonVars

\* Lines 100-104
Finally ==
    /\ btnTextDisplay' = "inline"
    /\ btnLoadingDisplay' = "none"

\* Lines 23-27: one fetch call, for run r.  The request is the same POST for
\* every run but for the ticker in its body, which nothing below reads: the
\* log keeps the run each call belongs to.
IssueFetch(r) == fetchLog' = Append(fetchLog, r)

\* Mutant: the old chart is not destroyed.
DestroyOld_Skip(cs, sc) == cs

\* Line 62: if (stockChart) stockChart.destroy()
DestroyOld(cs, sc) ==
    IF sc /= NoChart THEN [cs EXCEPT ![sc].destroyed = TRUE] ELSE cs

\* Mutant: the chart is built without the Predicted dataset.
NewChart_HistoryOnly(cs, d, r) ==
    Append(cs, [config    |-> [ChartConfig(d) EXCEPT !.predicted = <<>>],
                destroyed |-> FALSE,
                run       |-> r])

\* Line 65: new Chart(ctx, config), for run r
NewChart(cs, d, r) ==
    Append(cs, [config |-> ChartConfig(d), destroyed |-> FALSE, run |-> r])

End(r, outcome) ==
    /\ runs' = [runs EXCEPT ![r] = [@ EXCEPT !.stage = "done", !.outcome = outcome]]
    /\ settled' = Append(settled, r)

---------------------------------------------------------------------------
\* Lines 4-13: a click with nothing but whitespace in the field.
ClickEmpty(raw) ==
    /\ nClicks < MaxClicks
    /\ Trim(raw) = <<>>
    /\ tickerInput' = raw
    /\ nClicks' = nClicks + 1
    /\ ShowValidationError
    /\ UNCHANGED <<buttonVars, resultVars, runs, fetchLog, settled, lastResponse>>

\* Lines 4-27: a click with a ticker, up to the await of fetch.
ClickSubmit(raw) ==
    /\ nClicks < MaxClicks
    /\ Trim(raw) /= <<>>
    /\ tickerInput' = raw
    /\ nClicks' = nClicks + 1
    /\ HideError
    /\ ShowLoading
    /\ IssueFetch(Len(runs) + 1)
    /\ runs' = Append(runs, [stage |-> "fetch", outcome |-> "pending"])
    /\ UNCHANGED <<resultVars, settled, lastResponse>>

Click(raw) == ClickEmpty(raw) \/ ClickSubmit(raw)

\* Line 23 resumes with a response; the handler awaits response.json() (line 29).
FetchResolve(r) ==
    /\ runs[r].stage = "fetch"
    /\ runs' = [runs EXCEPT ![r].stage = "json"]
    /\ UNCHANGED <<tickerInput, nClicks, errorVars, buttonVars, resultVars,
                   fetchLog, settled, lastResponse>>

\* Line 23 throws (the fetch promise is rejected): catch, finally.
FetchReject(r) ==
    /\ runs[r].stage = "fetch"
    /\ Catch
    /\ Finally
    /\ End(r, "fetchRejected")
    /\ UNCHANGED <<tickerInput, nClicks, resultVars, fetchLog, lastResponse>>

\* Line 29 throws (the body is not JSON): catch, finally.
JsonReject(r) ==
    /\ runs[r].stage = "json"
    /\ Catch
    /\ Finally
    /\ End(r, "jsonRejected")
    /\ UNCHANGED <<tickerInput, nClicks, resultVars, fetchLog, lastResponse>>

\* Lines 29-104: response.json() resolves with d and the handler runs to its end.
JsonResolve(r, d, chartFails) ==
    LET exit == ExitLine(d, chartFails)
        kept == IF Executed(62, exit) THEN DestroyOld(charts, stockChart) ELSE charts
    IN  /\ runs[r].stage = "json"
        /\ lastResponse' = [run |-> r, data |-> d]
        /\ IF exit = 34 THEN ShowServerError(d)
           ELSE IF Thrown(exit) THEN Catch
           ELSE UNCHANGED errorVars
        /\ fields' = IF Executed(51, exit) THEN CardOf[d] ELSE fields
        /\ resultsDisplay' = IF Executed(54, exit) THEN "block" ELSE resultsDisplay
        /\ infoDisplay' = IF Executed(55, exit) THEN "none" ELSE infoDisplay
        /\ charts' = IF Executed(65, exit) THEN NewChart(kept, d, r) ELSE kept
        /\ stockChart' = IF Executed(65, exit) THEN Len(kept) + 1 ELSE stockChart
        /\ Finally
        /\ End(r, Outcome(exit))
        /\ UNCHANGED <<tickerInput, nClicks, fetchLog>>

Next ==
    \/ \E raw \in RawInputs : Click(raw)
    \/ \E r \in 1..Len(runs) : FetchResolve(r)
    \/ \E r \in 1..Len(runs) : FetchReject(r)
    \/ \E r \in 1..Len(runs) : JsonReject(r)
    \/ \E r \in 1..Len(runs), d \in Responses, chartFails \in BOOLEAN :
           JsonResolve(r, d, chartFails)

Spec == Init /\ [][Next]_vars

---------------------------------------------------------------------------
\* Vocabulary of the properties.

Pending == {r \in 1..Len(runs) : runs[r].stage /= "done"}

LiveCharts == {c \in 1..Len(charts) : ~charts[c].destroyed}

WhitespaceOnly(s) == \A i \in 1..Len(s) : IsWhitespace(s[i])

\* This step is a click (every click is counted, whatever it does).
Clicked == nClicks' = nClicks + 1

\* This step is the last of run r.
Ends(r) == runs[r].stage /= "done" /\ runs'[r].stage = "done"

\* This step decodes the body of run r.
Decodes(r) == runs[r].stage = "json" /\ lastResponse'.run = r

ButtonRestored == btnTextDisplay = "inline" /\ btnLoadingDisplay = "none"

ButtonLoading == btnTextDisplay = "none" /\ btnLoadingDisplay = "inline-flex"

LastSettledRendered ==
    /\ settled /= <<>>
    /\ runs[settled[Len(settled)]].outcome = "rendered"

---------------------------------------------------------------------------
\* C1: a click on an empty or whitespace-only field issues no fetch, starts no
\* run, shows "Please enter a stock ticker!" and changes nothing else, whatever
\* the page state and whatever requests are in flight.
C1_EmptyTickerNoRequest ==
    [][ (Clicked /\ WhitespaceOnly(tickerInput'))
          => /\ fetchLog' = fetchLog
             /\ runs' = runs
             /\ errorText' = "Please enter a stock ticker!"
             /\ errorDisplay' = "block"
             /\ UNCHANGED <<buttonVars, resultVars, settled, lastResponse>> ]_vars

\* A whitespace-only click was made while a request was in flight.
C1_Witness ==
    /\ nClicks = 2
    /\ tickerInput /= <<>>
    /\ WhitespaceOnly(tickerInput)
    /\ Pending /= {}
    /\ Len(fetchLog) = 1
    /\ errorText = "Please enter a stock ticker!"
    /\ errorDisplay = "block"

\* C2: a decoded body with a non-empty error field puts that text, as it is,
\* in the error element and shows it; no step of that run (the click, the
\* arrival of the response, the decoding) changes a result field, the badge,
\* the visibility of the two sections, stockChart or any chart.
C2_ErrorFieldOnlyError ==
    [][ /\ \A r \in 1..Len(runs) :
              (Decodes(r) /\ lastResponse'.data.isObject
                          /\ lastResponse'.data.error.defined
                          /\ lastResponse'.data.error.val /= "")
                => /\ errorText' = lastResponse'.data.error.val
                   /\ errorDisplay' = "block"
                   /\ UNCHANGED resultVars
        /\ (Len(runs') > Len(runs)) => UNCHANGED resultVars
        /\ \A r \in 1..Len(runs) :
              (runs[r].stage = "fetch" /\ runs'[r].stage = "json")
                => UNCHANGED resultVars ]_vars

\* An error body arrived after an earlier response had been rendered.
C2_Witness ==
    /\ Len(settled) = 2
    /\ lastResponse.run = settled[2]
    /\ Truthy(lastResponse.data.error)
    /\ errorText = "No data found for ticker"
    /\ errorDisplay = "block"
    /\ fields.tickerDisplay = "AAPL"
    /\ stockChart /= NoChart

\* C3: at most one chart is constructed and not destroyed, and it is the one
\* stockChart holds.
C3_AtMostOneLiveChart ==
    /\ Cardinality(LiveCharts) <= 1
    /\ LiveCharts \subseteq {stockChart}

\* Two overlapping clicks were both rendered: the first chart was replaced.
C3_Witness ==
    /\ Len(charts) = 2
    /\ charts[1].destroyed
    /\ LiveCharts = {2}
    /\ stockChart = 2
    /\ settled = <<2, 1>>

\* C4: the last step of every run that switched the button to loading restores
\* it, however the run ends, and when no run is pending the button is restored.
C4_ButtonRestoredAtEnd ==
    /\ []((runs /= <<>> /\ Pending = {}) => ButtonRestored)
    /\ [][ \A r \in 1..Len(runs) : Ends(r) => ButtonRestored' ]_vars

\* Two runs ended, one by an exception and one rendered.
C4_Witness ==
    /\ Len(runs) = 2
    /\ Pending = {}
    /\ {runs[r].outcome : r \in 1..2} = {"exception", "rendered"}
    /\ ButtonRestored

\* C5: when fetch or response.json() throws, the run ends showing "Error
\* connecting to server." and issues no further fetch: every run has exactly
\* one fetch call.
C5_ThrowShowsGenericNoRetry ==
    /\ [](\A r \in 1..Len(runs) :
              Cardinality({i \in 1..Len(fetchLog) : fetchLog[i] = r}) = 1)
    /\ [][ \A r \in 1..Len(runs) :
              (Ends(r) /\ runs'[r].outcome \in {"fetchRejected", "jsonRejected"})
                => /\ errorText' = "Error connecting to server."
                   /\ errorDisplay' = "block"
                   /\ fetchLog' = fetchLog ]_vars

\* One run ended by a rejected fetch and another by a rejected decoding.
C5_Witness ==
    /\ Len(runs) = 2
    /\ {runs[r].outcome : r \in 1..2} = {"fetchRejected", "jsonRejected"}
    /\ errorText = "Error connecting to server."
    /\ errorDisplay = "block"
    /\ Len(fetchLog) = 2

\* C6: after a well-formed response is rendered, the change shown is
\* predicted_price - last_close to two decimals after "$", the percent shown is
\* the change shown over last_close times 100 to two decimals before "%", and
\* the badge is Bullish/positive when predicted_price - last_close >= 0 and
\* Bearish/negative when it is < 0.
C6_BadgeKeyedOnSignOfChange ==
    LastSettledRendered =>
        LET d      == lastResponse.data
            change == NumSub(d.predicted_price, d.last_close)
            shown  == ToFixed(change)
        IN  /\ fields.priceChange = "$" \o DecimalText(shown)
            /\ fields.percentChange =
                   DecimalText(ToFixed(NumPercent(ToNumber(shown), d.last_close))) \o "%"
            /\ change.num >= 0 =>
                   fields.badgeText = "Bullish ↑" /\ fields.badgeClass = "badge positive"
            /\ change.num < 0 =>
                   fields.badgeText = "Bearish ↓" /\ fields.badgeClass = "badge negative"

\* C7: a run that ends by showing an error message (the server's, or the
\* generic one of the catch block) has not changed a result field, the badge,
\* the visibility of the two sections, stockChart or any chart in its last
\* step, and neither has a click that shows the validation message.
C7_ErrorEndsWithoutRendering ==
    [][ /\ \A r \in 1..Len(runs) :
              (Ends(r) /\ runs'[r].outcome /= "rendered") => UNCHANGED resultVars
        /\ (Clicked /\ WhitespaceOnly(tickerInput')) => UNCHANGED resultVars ]_vars

\* C8: while a run is pending the spinner is shown and the button text hidden.
C8_LoadingWhilePending ==
    Pending /= {} => ButtonLoading

\* C9: when the run that ended last was rendered, the page shows that run's
\* response: the fields are its card, stockChart is the chart built from it,
\* that chart is live, and the chart of every run rendered before is destroyed.
C9_LastArrivalWins ==
    LastSettledRendered =>
        LET r == settled[Len(settled)]
            d == lastResponse.data
        IN  /\ lastResponse.run = r
            /\ fields = PredictionCard(d)
            /\ resultsDisplay = "block"
            /\ infoDisplay = "none"
            /\ stockChart /= NoChart
            /\ charts[stockChart].run = r
            /\ charts[stockChart].config = ChartConfig(d)
            /\ \A c \in 1..Len(charts) : charts[c].destroyed <=> c /= stockChart

\* The second click was made before the first response arrived, the second
\* response was rendered first and the first response last, with other prices.
C9_Witness ==
    /\ settled = <<2, 1>>
    /\ runs[1].outcome = "rendered"
    /\ runs[2].outcome = "rendered"
    /\ lastResponse.run = 1
    /\ Len(charts) = 2
    /\ charts[1].run = 2
    /\ charts[2].run = 1
    /\ charts[1].config /= charts[2].config
    /\ charts[1].destroyed

\* C10: the step that completes a rendering leaves the error element hidden.
C10_RenderHidesError ==
    [][ \A r \in 1..Len(runs) :
            (Ends(r) /\ runs'[r].outcome = "rendered") => errorDisplay' = "none" ]_vars

==============================================================================
